---------------------------- MODULE Spec2Model ----------------------------
(***************************************************************************)
(* A model of testcontainers-learning: the test harnesses that provision   *)
(* disposable redis / postgres / localstack containers, and the client     *)
(* facades (postgres, redis, dynamodb) the tests drive.                    *)
(*                                                                         *)
(*   SpecHarness  the harnesses, run as concurrent test processes          *)
(*   SpecTx       the relational facade: InsertUser, ExecuteInTransaction  *)
(*   SpecUsers    the relational facade: UpdateUser, DeleteUser, GetUser   *)
(*   SpecCounter  concurrent Increment / Decrement on one redis key        *)
(*   SpecCache    the cache facade: Set, Get, Delete, Exists               *)
(*   SpecExpiry   the cache facade: keys set with a ttl, as time passes    *)
(*   SpecSeq      the cache facade: a counter key, one caller              *)
(*   SpecReady    the harness: postgres.Run and its wait for the log line  *)
(*   SpecWhere    the relational facade: GetUsersByNamePattern             *)
(*   SpecList     the cache facade: RPush, LPush, LRange                   *)
(*   SpecItems    the document facade: items put, read and deleted         *)
(*   SpecSuite    the tests of the two suites on shared instances          *)
(*   SpecIdem     CreateTable, DropTable and the cache's Delete repeated   *)
(*   SpecDoc      the document facade: PutItem, UpdateItem, GetItem, Scan  *)
(***************************************************************************)
EXTENDS Integers, Sequences, FiniteSets

VARIABLES
    proc,        \* harness: per test process, its program, position, defers, handles
    containers,  \* harness: the container runtime, one record per created container
    boot,        \* harness: one start of the relational instance, and the wait for it
    db,          \* relational store: committed rows, the SERIAL sequence
    call,        \* relational facade: the ExecuteInTransaction call in progress
    last,        \* relational facade: the last completed call and what it returned
    kv,          \* cache server: the counter key's value
    clients,     \* cache facade: each concurrent caller's command and reply
    history,     \* cache server: the commands it has executed, in its order
    cache,       \* cache server: its clock and its keys, for one sequential client
    reply,       \* cache facade: the last call of that client and what it returned
    store,       \* document store: the items of the table
    answer       \* document facade: the last call and what it returned

harnessVars == <<proc, containers, boot>>
txVars      == <<db, call, last>>
counterVars == <<kv, clients, history>>
cacheVars   == <<cache, reply>>
docVars     == <<store, answer>>
vars        == <<proc, containers, boot, db, call, last, kv, clients, history,
                 cache, reply, store, answer>>

(***************************************************************************)
(*                       PART 1: THE TEST HARNESSES                        *)
(***************************************************************************)

\* The test processes that run concurrently (go test runs the packages' test
\* binaries in parallel; the tests of one package run one after the other).
Procs == {"t1", "t2"}

Services == {"redis", "postgres", "localstack"}

NoContainer == 0

\* ---- failure policies of a harness step --------------------------------

\* A cleanup primitive: Close / ProviderClose / Terminate of service s; onErr says
\* what the harness does with TerminateContainer's error.
Prim(c, s, onErr) == [c |-> c, s |-> s, onErr |-> onErr]

\* require.NoError(t, err): t.FailNow() on error (mutant: assert-like, carries on).
RequireAsAssert == [undo |-> <<>>, then |-> "Continue"]

RequireNoError == [undo |-> <<>>, then |-> "FailNow"]

\* cachedData, err := redis.Get(...); if err != nil { <miss branch> }: the error
\* of a cache miss is the expected branch, not a failure.
CacheMiss == [undo |-> <<>>, then |-> "Miss"]

\* assert.NoError(t, err): marks the test failed and carries on.
AssertNoError == [undo |-> <<>>, then |-> "Continue"]

\* if err != nil { <undo>; panic(err) }
PanicAfter(undo) == [undo |-> undo, then |-> "Panic"]

NoPolicy == [undo |-> <<>>, then |-> "None"]

\* ---- steps -------------------------------------------------------------

\* k: Run | Resolve | Call | Connect | New | Op | Defer | MRun | Cleanup | Exit
\* w: the operation writes the row john@example.com (Op only)
Step(k, s, f) == [k |-> k, s |-> s, f |-> f, d |-> <<>>, w |-> FALSE]
WriteOp(s, f) == [k |-> "Op", s |-> s, f |-> f, d |-> <<>>, w |-> TRUE]
Defer(d)      == [k |-> "Defer", s |-> "redis", f |-> NoPolicy, d |-> d, w |-> FALSE]
Cleanup(d)    == [k |-> "Cleanup", s |-> "redis", f |-> NoPolicy, d |-> d, w |-> FALSE]

\* ---- the harness programs ------------------------------------------------

\* setupPostgres, then a test that defers the returned cleanup and runs its body.
setupPostgres ==
    << Step("Run", "postgres", RequireNoError),
       Step("Resolve", "postgres", RequireNoError),
       Step("Connect", "postgres", RequireNoError),
       Step("Op", "postgres", RequireNoError),
       Defer(<< Prim("Close", "postgres", "ignore"),
                Prim("Terminate", "postgres", "fatalf") >>),
       Step("Op", "postgres", RequireNoError),
       WriteOp("postgres", AssertNoError),
       Step("Op", "postgres", AssertNoError) >>

\* setupDynamoDB, then TestDynamoDBCreateTable.
setupDynamoDB ==
    << Step("Run", "localstack", RequireNoError),
       Step("Call", "localstack", RequireNoError),
       Step("Call", "localstack", RequireNoError),
       Step("Resolve", "localstack", RequireNoError),
       Step("Call", "localstack", RequireNoError),
       Step("New", "localstack", NoPolicy),
       Defer(<< Prim("ProviderClose", "localstack", "ignore"),
                Prim("Terminate", "localstack", "fatalf") >>),
       WriteOp("localstack", AssertNoError),
       Step("Op", "localstack", AssertNoError) >>

\* The redis suite's TestMain: one container shared by every test of m.Run().
RedisTestMain ==
    << Step("Run", "redis", PanicAfter(<<>>)),
       Step("Resolve", "redis",
            PanicAfter(<< Prim("Terminate", "redis", "ignore") >>)),
       Step("New", "redis", NoPolicy),
       Step("Op", "redis",
            PanicAfter(<< Prim("Close", "redis", "ignore"),
                          Prim("Terminate", "redis", "ignore") >>)),
       Step("MRun", "redis", NoPolicy),
       Cleanup(<< Prim("Close", "redis", "ignore"),
                  Prim("Terminate", "redis", "panic") >>),
       Step("Exit", "redis", NoPolicy) >>

DynamoUndo ==
    << Prim("ProviderClose", "localstack", "ignore"),
       Prim("Terminate", "localstack", "ignore") >>

\* The dynamodb suite's TestMain.
DynamoTestMain ==
    << Step("Run", "localstack", PanicAfter(<<>>)),
       Step("Call", "localstack", PanicAfter(<<>>)),
       Step("Call", "localstack", PanicAfter(DynamoUndo)),
       Step("Resolve", "localstack", PanicAfter(DynamoUndo)),
       Step("Call", "localstack", PanicAfter(DynamoUndo)),
       Step("New", "localstack", NoPolicy),
       Step("MRun", "localstack", NoPolicy),
       Cleanup(<< Prim("ProviderClose", "localstack", "ignore"),
                  Prim("Terminate", "localstack", "panic") >>),
       Step("Exit", "localstack", NoPolicy) >>

\* examples: three containers in one test, each released by its own defer.
TestMultiContainerIntegration ==
    << Step("Run", "redis", RequireNoError),
       Defer(<< Prim("Terminate", "redis", "log") >>),
       Step("Resolve", "redis", RequireNoError),
       Step("Run", "postgres", RequireNoError),
       Defer(<< Prim("Terminate", "postgres", "log") >>),
       Step("Resolve", "postgres", RequireNoError),
       Step("Run", "localstack", RequireNoError),
       Defer(<< Prim("Terminate", "localstack", "log") >>),
       Step("Call", "localstack", RequireNoError),
       Defer(<< Prim("ProviderClose", "localstack", "ignore") >>),
       Step("Call", "localstack", RequireNoError),
       Step("Resolve", "localstack", RequireNoError),
       Step("Call", "localstack", RequireNoError),
       Step("New", "redis", NoPolicy),
       Defer(<< Prim("Close", "redis", "ignore") >>),
       Step("Connect", "postgres", RequireNoError),
       Defer(<< Prim("Close", "postgres", "ignore") >>),
       Step("New", "localstack", NoPolicy),
       Step("Op", "postgres", RequireNoError),
       WriteOp("postgres", RequireNoError),
       Step("Op", "redis", AssertNoError),
       Step("Op", "localstack", RequireNoError),
       Step("Op", "localstack", AssertNoError),
       Step("Op", "redis", AssertNoError),
       Step("Op", "postgres", AssertNoError),
       Step("Op", "localstack", AssertNoError) >>

\* examples: redis in front of postgres.
TestCacheAsidePattern ==
    << Step("Run", "redis", RequireNoError),
       Defer(<< Prim("Terminate", "redis", "ignore") >>),
       Step("Resolve", "redis", RequireNoError),
       Step("Run", "postgres", RequireNoError),
       Defer(<< Prim("Terminate", "postgres", "ignore") >>),
       Step("Resolve", "postgres", RequireNoError),
       Step("New", "redis", NoPolicy),
       Defer(<< Prim("Close", "redis", "ignore") >>),
       Step("Connect", "postgres", RequireNoError),
       Defer(<< Prim("Close", "postgres", "ignore") >>),
       Step("Op", "postgres", RequireNoError),
       WriteOp("postgres", RequireNoError),
       Step("Op", "redis", CacheMiss),
       Step("Op", "postgres", RequireNoError),
       WriteOp("redis", RequireNoError),
       Step("Op", "redis", AssertNoError) >>

\* redis: a container per test.
TestRedisBasicOperations ==
    << Step("Run", "redis", RequireNoError),
       Defer(<< Prim("Terminate", "redis", "fatalf") >>),
       Step("Resolve", "redis", RequireNoError),
       Step("New", "redis", NoPolicy),
       Defer(<< Prim("Close", "redis", "ignore") >>),
       Step("Op", "redis", AssertNoError),
       WriteOp("redis", AssertNoError),
       Step("Op", "redis", AssertNoError),
       Step("Op", "redis", AssertNoError),
       WriteOp("redis", AssertNoError),
       Step("Op", "redis", AssertNoError) >>

HarnessNames ==
    {"setupPostgres", "setupDynamoDB", "RedisTestMain", "DynamoTestMain",
     "TestMultiContainerIntegration", "TestCacheAsidePattern",
     "TestRedisBasicOperations"}

Program(h) ==
    CASE h = "setupPostgres" -> setupPostgres
      [] h = "setupDynamoDB" -> setupDynamoDB
      [] h = "RedisTestMain" -> RedisTestMain
      [] h = "DynamoTestMain" -> DynamoTestMain
      [] h = "TestMultiContainerIntegration" -> TestMultiContainerIntegration
      [] h = "TestCacheAsidePattern" -> TestCacheAsidePattern
      [] OTHER -> TestRedisBasicOperations


\* ---- the container runtime ---------------------------------------------

\* testcontainers' Run creates a new container on every call; its id is fresh.
ReusedContainerId == IF containers = <<>> THEN 1 ELSE Len(containers)

NewContainerId == Len(containers) + 1

NewContainer(p, s, ready) ==
    [owner |-> p, svc |-> s, ready |-> ready, running |-> TRUE, terms |-> 0,
     data |-> {}]

Logged(pr, ev, s) == [pr EXCEPT !.log = Append(@, <<ev, s>>)]

\* One cleanup primitive on the world w = [pr, cont, stop]; tok: whether
\* TerminateContainer succeeds.  TerminateContainer(nil) is a no-op.
ApplyPrim(q, w, tok) ==
    LET cid == w.pr.handle[q.s] IN
    CASE q.c = "Close" -> [w EXCEPT !.pr = Logged(@, "close", q.s)]
      [] q.c = "ProviderClose" -> w
      [] OTHER ->
           IF cid = NoContainer \/ cid > Len(w.cont) THEN w
           ELSE LET c1 == [w.cont EXCEPT ![cid].terms = @ + 1,
                                         ![cid].running = IF tok THEN FALSE ELSE @]
                    p1 == Logged(w.pr, "release", q.s)
                IN  IF tok \/ q.onErr \in {"log", "ignore"}
                    THEN [w EXCEPT !.pr = p1, !.cont = c1]
                    ELSE IF q.onErr = "fatalf"
                    THEN [pr |-> [p1 EXCEPT !.failed = TRUE], cont |-> c1, stop |-> TRUE]
                    ELSE [pr |-> [p1 EXCEPT !.panicked = TRUE], cont |-> c1,
                          stop |-> TRUE]

\* The primitives of one cleanup body in order; t.Fatalf and panic end the body.
RECURSIVE ApplyPrims(_, _, _)
ApplyPrims(prims, w, tok) ==
    IF prims = <<>> \/ w.stop THEN w
    ELSE ApplyPrims(Tail(prims), ApplyPrim(Head(prims), w, tok), tok)

World(pr, cont) == [pr |-> pr, cont |-> cont, stop |-> FALSE]

\* What a step does when its call returned an error, by its policy f.
OnError(pr, cont, f, tok) ==
    LET w == ApplyPrims(f.undo, World(pr, cont), tok) IN
    CASE f.then = "FailNow" ->
           [w EXCEPT !.pr.failed = TRUE, !.pr.status = "unwinding"]
      [] f.then = "Panic" ->
           [w EXCEPT !.pr.panicked = TRUE, !.pr.status = "unwinding"]
      [] f.then = "Miss" ->
           [w EXCEPT !.pr.pc = @ + 1]
      [] OTHER ->
           [w EXCEPT !.pr.failed = TRUE, !.pr.pc = @ + 1]

Cur(p) == Program(proc[p].prog)[proc[p].pc]

AtStep(p, k) ==
    /\ proc[p].status = "running"
    /\ proc[p].pc <= Len(Program(proc[p].prog))
    /\ Cur(p).k = k

Becomes(p, w) ==
    /\ proc' = [proc EXCEPT ![p] = w.pr]
    /\ containers' = w.cont
    /\ UNCHANGED <<boot, txVars, counterVars, cacheVars, docVars>>

Advance(pr) == [pr EXCEPT !.pc = @ + 1]

\* ---- the steps -----------------------------------------------------------

\* <module>.Run(ctx, image, ...): ok (created and ready), no container at all, or
\* a container that was created and returned together with the readiness error.
StepRun(p) ==
    /\ AtStep(p, "Run")
    /\ \E out \in {"ok", "noContainer", "notReady"}, tok \in BOOLEAN :
         LET s == Cur(p).s
             pr == proc[p]
         IN  CASE out = "ok" ->
                    /\ tok
                    /\ Becomes(p, World(
                         Advance(Logged([pr EXCEPT !.handle[s] = NewContainerId],
                                        "ready", s)),
                         Append(containers, NewContainer(p, s, TRUE))))
               [] out = "noContainer" ->
                    Becomes(p, OnError(Logged(pr, "runfail", s), containers,
                                       Cur(p).f, tok))
               [] OTHER ->
                    Becomes(p, OnError(
                         Logged([pr EXCEPT !.handle[s] = NewContainerId],
                                "runfail", s),
                         Append(containers, NewContainer(p, s, FALSE)),
                         Cur(p).f, tok))

\* Endpoint / ConnectionString / MappedPort: the address of this handle's container.
StepResolve(p) ==
    /\ AtStep(p, "Resolve")
    /\ \E ok \in BOOLEAN, tok \in BOOLEAN :
         LET s == Cur(p).s
             pr == proc[p]
         IN  IF ok
             THEN /\ tok
                  /\ Becomes(p, World(
                       Advance(Logged([pr EXCEPT !.endpoint[s] = pr.handle[s]],
                                      "resolve", s)),
                       containers))
             ELSE Becomes(p, OnError(pr, containers, Cur(p).f, tok))

\* NewDockerProvider / DaemonHost / LoadDefaultConfig: a call that only can fail.
StepCall(p) ==
    /\ AtStep(p, "Call")
    /\ \E ok \in BOOLEAN, tok \in BOOLEAN :
         IF ok
         THEN /\ tok
              /\ Becomes(p, World(Advance(proc[p]), containers))
         ELSE Becomes(p, OnError(proc[p], containers, Cur(p).f, tok))

\* postgres.NewClient(connStr): sqlx.Connect, which can fail.
StepConnect(p) ==
    /\ AtStep(p, "Connect")
    /\ \E ok \in BOOLEAN, tok \in BOOLEAN :
         IF ok
         THEN /\ tok
              /\ Becomes(p, World(Advance(Logged(proc[p], "facade", Cur(p).s)),
                                  containers))
         ELSE Becomes(p, OnError(proc[p], containers, Cur(p).f, tok))

\* redis.NewClient(addr), dynamodb.NewClient(cfg, endpoint): cannot fail.
StepNew(p) ==
    /\ AtStep(p, "New")
    /\ Becomes(p, World(Advance(Logged(proc[p], "facade", Cur(p).s)), containers))

\* The container a facade talks to: the one its endpoint was resolved from.
Target(pr, s) == pr.endpoint[s]

Reachable(cont, cid) ==
    /\ cid # NoContainer
    /\ cid <= Len(cont)
    /\ cont[cid].ready
    /\ cont[cid].running

Written(cont, cid, p, w) ==
    IF w /\ Reachable(cont, cid)
    THEN [cont EXCEPT ![cid].data = @ \cup {p}]
    ELSE cont

\* One facade operation of the test body (or the Ping of a setup).  The Get
\* that opens the cache-aside test reads a key nobody has set on the fresh
\* instance: it can only miss.
StepOp(p) ==
    /\ AtStep(p, "Op")
    /\ \E out \in {"ok", "err", "panic"}, tok \in BOOLEAN :
         LET s == Cur(p).s
             pr == Logged(proc[p], "op", s)
             cid == Target(proc[p], s)
         IN  CASE out = "ok" ->
                    /\ tok
                    /\ Reachable(containers, cid)
                    /\ Cur(p).f.then # "Miss"
                    /\ Becomes(p, World(Advance(pr),
                                        Written(containers, cid, p, Cur(p).w)))
               [] out = "err" ->
                    Becomes(p, OnError(pr, containers, Cur(p).f, tok))
               [] OTHER ->
                    /\ tok
                    /\ Becomes(p, World([pr EXCEPT !.panicked = TRUE,
                                                   !.status = "unwinding"],
                                        containers))

\* defer f(): pushed, run when the function unwinds.
StepDefer(p) ==
    /\ AtStep(p, "Defer")
    /\ Becomes(p, World(Advance([proc[p] EXCEPT !.defers = Append(@, Cur(p).d)]),
                        containers))

\* code := m.Run(): the suite's tests against the shared facade; a panic in a
\* test ends the process there.
StepMRun(p) ==
    /\ AtStep(p, "MRun")
    /\ \E out \in {"pass", "fail", "crash"} :
         LET s == Cur(p).s
             pr == Logged(proc[p], "op", s)
             cont == Written(containers, Target(proc[p], s), p, TRUE)
         IN  CASE out = "pass" -> Becomes(p, World(Advance(pr), cont))
               [] out = "fail" ->
                    Becomes(p, World(Advance([pr EXCEPT !.failed = TRUE]), cont))
               [] OTHER ->
                    Becomes(p, World([pr EXCEPT !.panicked = TRUE,
                                                !.status = "unwinding"], cont))

\* TestMain's closing lines: Close, then TerminateContainer, panic on its error.
StepCleanup(p) ==
    /\ AtStep(p, "Cleanup")
    /\ \E tok \in BOOLEAN :
         LET w == ApplyPrims(Cur(p).d, World(proc[p], containers), tok) IN
         IF w.pr.panicked
         THEN Becomes(p, [w EXCEPT !.pr.status = "unwinding"])
         ELSE Becomes(p, [w EXCEPT !.pr.pc = @ + 1])

\* os.Exit(code)
StepExit(p) ==
    /\ AtStep(p, "Exit")
    /\ Becomes(p, World([proc[p] EXCEPT !.status = "done"], containers))

\* The test function returns: its defers run.
Return(p) ==
    /\ proc[p].status = "running"
    /\ proc[p].pc > Len(Program(proc[p].prog))
    /\ Becomes(p, World([proc[p] EXCEPT !.status = "unwinding"], containers))

\* (mutant: the deferred calls are dropped, not run)
DeferredLost(p) ==
    /\ proc[p].status = "unwinding"
    /\ proc[p].defers # <<>>
    /\ Becomes(p, World([proc[p] EXCEPT !.defers = <<>>], containers))

\* One deferred call, last registered first (return, FailNow and panic alike).
RunDeferred(p) ==
    /\ proc[p].status = "unwinding"
    /\ proc[p].defers # <<>>
    /\ \E tok \in BOOLEAN :
         LET n == Len(proc[p].defers)
             pr == [proc[p] EXCEPT !.defers = SubSeq(@, 1, n - 1)]
             w == ApplyPrims(proc[p].defers[n], World(pr, containers), tok)
         IN  Becomes(p, w)

\* No deferred call is left: the test (or the process) is over.
Finish(p) ==
    /\ proc[p].status = "unwinding"
    /\ proc[p].defers = <<>>
    /\ Becomes(p, World([proc[p] EXCEPT !.status = "done"], containers))

NoHandles == [s \in Services |-> NoContainer]

InitProc(h) ==
    [prog |-> h, pc |-> 1, status |-> "running", defers |-> <<>>,
     handle |-> NoHandles, endpoint |-> NoHandles,
     failed |-> FALSE, panicked |-> FALSE, log |-> <<>>]

\* t1 runs any harness of the repository; beside it t2 runs a test of another
\* package that calls one of the two setup functions.
Runs(p) == IF p = "t1" THEN HarnessNames ELSE {"setupPostgres", "setupDynamoDB"}

\* ---- postgres.Run and its wait strategy ------------------------------------

\* wait.ForLog("database system is ready to accept connections").
\*     WithOccurrence(2).WithStartupTimeout(60*time.Second)
Occurrence == 2

StartupTimeout == 60

\* The instance writes the line at most MaxLines times.
MaxLines == 3

\* run: none | waiting | ready | failed; clock: the seconds Run has waited;
\* lines: how often the log has the line; seen: how often when Run returned.
NotStarted ==
    [run |-> "none", clock |-> 0, lines |-> 0, seen |-> 0,
     connStr |-> FALSE, connected |-> FALSE]

Waits(b) ==
    /\ boot' = b
    /\ UNCHANGED <<proc, containers, txVars, counterVars, cacheVars, docVars>>

\* postgres.Run(ctx, image, ..., WithWaitStrategy(...)): the container starts
\* and Run waits for it.
PgRun ==
    /\ boot.run = "none"
    /\ Waits([boot EXCEPT !.run = "waiting"])

\* The instance logs the line: once when the server of the init scripts is up,
\* once more when the restarted server is.
LogsReady ==
    /\ boot.run # "none"
    /\ boot.lines < MaxLines
    /\ Waits([boot EXCEPT !.lines = @ + 1])

\* A second passes while Run waits.
Second ==
    /\ boot.run = "waiting"
    /\ boot.clock < StartupTimeout
    /\ Waits([boot EXCEPT !.clock = @ + 1])

\* (mutant: one occurrence is enough)
SeenOnce(lines) == lines >= 1

\* The strategy's check of the log it has read.
Seen(lines) == lines >= Occurrence

\* The wait loop: the startup timeout ends it with an error; before that it
\* reads the log and ends without one if the line is there often enough.
WaitReturns ==
    /\ boot.run = "waiting"
    /\ IF boot.clock >= StartupTimeout
       THEN Waits([boot EXCEPT !.run = "failed", !.seen = boot.lines])
       ELSE /\ Seen(boot.lines)
            /\ Waits([boot EXCEPT !.run = "ready", !.seen = boot.lines])

\* require.NoError(t, err) lets the test go on after a Run without error only.
PgConnectionString ==
    /\ boot.run = "ready"
    /\ ~boot.connStr
    /\ Waits([boot EXCEPT !.connStr = TRUE])

\* NewClient(connStr)
PgConnect ==
    /\ boot.connStr
    /\ ~boot.connected
    /\ Waits([boot EXCEPT !.connected = TRUE])

NextReady ==
    \/ PgRun
    \/ LogsReady
    \/ Second
    \/ WaitReturns
    \/ PgConnectionString
    \/ PgConnect

\* ---- the harness, from its start ---------------------------------------------

InitHarness ==
    /\ proc \in {f \in [Procs -> {InitProc(h) : h \in HarnessNames}] :
                   \A p \in Procs : f[p].prog \in Runs(p)}
    /\ containers = <<>>
    /\ boot = NotStarted


NextHarness ==
    \E p \in Procs :
       \/ StepRun(p)
       \/ StepResolve(p)
       \/ StepCall(p)
       \/ StepConnect(p)
       \/ StepNew(p)
       \/ StepOp(p)
       \/ StepDefer(p)
       \/ StepMRun(p)
       \/ StepCleanup(p)
       \/ StepExit(p)
       \/ Return(p)
       \/ RunDeferred(p)
       \/ Finish(p)



\* ---- claims about the harnesses ------------------------------------------

Done(p) == proc[p].status = "done"

Owned(p) == {c \in 1..Len(containers) : containers[c].owner = p}

\* C1: every container a test or suite setup started is terminated exactly once
\* by the time its owning test or process is over, whichever way it ended.
C1_StartedContainerTerminatedOnce ==
    \A p \in Procs :
       Done(p) => \A c \in Owned(p) : containers[c].terms = 1

\* C2: a container that Run created and returned together with a readiness
\* error is terminated by the caller before the test or process is over.
C2_ReadinessFailureTornDown ==
    \A p \in Procs :
       Done(p) => \A c \in Owned(p) : ~containers[c].ready => containers[c].terms >= 1

Events(p, s) == {i \in 1..Len(proc[p].log) : proc[p].log[i][2] = s}

Has(p, s, ev, j) == \E i \in Events(p, s) : i < j /\ proc[p].log[i][1] = ev

\* C3: per instance the events come in the order ready, endpoint resolved,
\* facade constructed, facade operations, release: no endpoint before ready, no
\* facade before its endpoint, no operation before the facade or after the
\* release, and nothing at all after a failed Run.  (The log only grows and a
\* step appends at most three events, so every event is among the last three in
\* the state that follows it: the order is stated of those against all earlier.)
C3_HarnessEventOrder ==
    \A p \in Procs :
       \A j \in 1..Len(proc[p].log) :
          j + 3 > Len(proc[p].log) =>
             LET ev == proc[p].log[j][1]
                 s == proc[p].log[j][2]
             IN  /\ ev = "resolve" => Has(p, s, "ready", j)
                 /\ ev = "facade" => Has(p, s, "resolve", j)
                 /\ ev = "op" => Has(p, s, "facade", j)
                 /\ ev \in {"ready", "resolve", "facade", "op"}
                       => /\ ~Has(p, s, "release", j)
                          /\ \A i \in 1..(j - 1) : proc[p].log[i][1] # "runfail"

\* A test went through the whole order on one instance and released it.
C3_Witness ==
    \E p \in Procs, s \in Services :
       /\ Done(p)
       /\ \E j \in Events(p, s) :
             /\ proc[p].log[j][1] = "release"
             /\ Has(p, s, "op", j)
             /\ Has(p, s, "ready", j)

\* C10: two setups never hand out the same instance, and what a test can read
\* through its facade was written through that facade: no row written by one
\* test is in the instance of another.
C10_IndependentInstances ==
    /\ \A p, q \in Procs : \A s, t \in Services :
          (p # q /\ proc[p].handle[s] # NoContainer)
             => proc[p].handle[s] # proc[q].handle[t]
    /\ \A p \in Procs : \A s \in Services :
          LET cid == proc[p].endpoint[s] IN
          (cid # NoContainer /\ cid <= Len(containers))
             => /\ containers[cid].owner = p
                /\ containers[cid].data \subseteq {p}

\* Two tests run at the same time, each has written its row into its own instance.
C10_Witness ==
    \E s, t \in Services :
       /\ proc["t1"].status = "running" /\ proc["t2"].status = "running"
       /\ proc["t1"].endpoint[s] # NoContainer
       /\ proc["t2"].endpoint[t] # NoContainer
       /\ containers[proc["t1"].endpoint[s]].data = {"t1"}
       /\ containers[proc["t2"].endpoint[t]].data = {"t2"}

\* The test or process p is in its teardown: its deferred calls run, or its
\* TestMain is at the closing lines after m.Run().
InTeardown(p) ==
    \/ proc[p].status = "unwinding"
    \/ AtStep(p, "Cleanup")

\* This step called TerminateContainer on an instance of p and it returned an error.
TerminateFailed(p) ==
    \E c \in Owned(p) :
       /\ containers'[c].terms = containers[c].terms + 1
       /\ containers'[c].running

\* C11: a failure of TerminateContainer during teardown is only logged: the step
\* of the teardown in which it happens neither marks the test failed nor panics,
\* so the outcome the test body produced is what the test ends with.
C11_TeardownErrorOnlyLogged ==
    [][\A p \in Procs :
         (InTeardown(p) /\ TerminateFailed(p))
            => /\ proc'[p].failed = proc[p].failed
               /\ proc'[p].panicked = proc[p].panicked]_vars


\* The tests that release their instances by deferred calls.
DeferTests ==
    {"setupPostgres", "setupDynamoDB", "TestMultiContainerIntegration",
     "TestCacheAsidePattern", "TestRedisBasicOperations"}

\* p has gone past a defer whose body has the primitive c of service s.
Deferred(p, c, s) ==
    \E i \in 1..Len(Program(proc[p].prog)) :
       LET st == Program(proc[p].prog)[i] IN
       /\ i < proc[p].pc
       /\ st.k = "Defer"
       /\ \E j \in 1..Len(st.d) : st.d[j].c = c /\ st.d[j].s = s

Released(p, s) == {i \in Events(p, s) : proc[p].log[i][1] = "release"}

Closed(p, s) == {i \in Events(p, s) : proc[p].log[i][1] = "close"}

\* C26: once a test has deferred the cleanup of an instance, TerminateContainer
\* is called on that instance exactly once by the time the test is over, never
\* twice before, whether the body ran to its end, stopped at a failed require or
\* panicked; a Close that the test deferred too is called, and before it.
C26_DeferredTeardownOnce ==
    \A p \in Procs : \A s \in Services :
       (proc[p].prog \in DeferTests /\ Deferred(p, "Terminate", s))
          => /\ proc[p].handle[s] \in 1..Len(containers)
             /\ containers[proc[p].handle[s]].terms <= 1
             /\ Cardinality(Released(p, s)) = containers[proc[p].handle[s]].terms
             /\ Done(p)
                   => /\ containers[proc[p].handle[s]].terms = 1
                      /\ Deferred(p, "Close", s) => Closed(p, s) # {}
                      /\ \A i \in Closed(p, s), j \in Released(p, s) : i < j

\* A test that deferred Close and TerminateContainer panicked in its body; it
\* is over, its facade closed and its instance released.
C26_Witness ==
    \E p \in Procs : \E s \in Services :
       /\ proc[p].prog \in DeferTests
       /\ Done(p)
       /\ proc[p].panicked
       /\ Deferred(p, "Terminate", s)
       /\ Deferred(p, "Close", s)
       /\ Closed(p, s) # {}
       /\ containers[proc[p].handle[s]].terms = 1

\* The startup timeout has passed and Run is still waiting.
TimedOut == boot.run = "waiting" /\ boot.clock >= StartupTimeout

ReadyTwice ==
    /\ boot.run = "ready" => boot.seen >= 2 /\ boot.clock < StartupTimeout
    /\ boot.lines < 2 => boot.run # "ready" /\ ~boot.connStr /\ ~boot.connected
    /\ boot.connStr => boot.run = "ready"
    /\ boot.connected => boot.connStr
    /\ boot.run = "failed" => boot.clock >= StartupTimeout

\* C25: Run returns without error only after the log has the line twice: with
\* one occurrence or none Run has not returned ready, no connection string is
\* resolved and no client is connected; when the 60 seconds of the startup
\* timeout pass before that, Run returns an error.
C25_ReadyAfterSecondLine == [](ReadyTwice) /\ (TimedOut ~> boot.run = "failed")

\* The line was logged once and Run kept waiting until the timeout failed it.
C25_Witness ==
    /\ boot.run = "failed"
    /\ boot.seen = 1
    /\ boot.clock = StartupTimeout

(***************************************************************************)
(*            PART 2: THE RELATIONAL FACADE (postgres.Client)              *)
(***************************************************************************)

\* The SERIAL sequence hands out ids up to MaxSeq in the model.
MaxSeq == 4

\* A transaction function runs at most MaxStmts statements.
MaxStmts == 2

\* The (name, email) pairs the tests insert; two of them share an email.
Users ==
    { <<"John Doe", "john@example.com">>,
      <<"Bob Johnson", "bob@example.com">>,
      <<"Another User", "john@example.com">> }

NoErr == "nil"

Row(id, u) == [id |-> id, name |-> u[1], email |-> u[2]]

Emails(rows) == {r.email : r \in rows}

\* INSERT INTO users (name, email) VALUES ($1, $2) against the rows a statement
\* sees: email is UNIQUE, id is the next value of the SERIAL sequence (which is
\* consumed whether or not the insert succeeds).
InsertErrNoUnique(exists, rows, u) ==
    IF ~exists THEN "undefined_table" ELSE NoErr

InsertErr(exists, rows, u) ==
    IF ~exists THEN "undefined_table"
    ELSE IF u[2] \in Emails(rows) THEN "unique_violation"
    ELSE NoErr

InsertRows(exists, rows, seq, u) ==
    IF InsertErr(exists, rows, u) = NoErr THEN rows \cup {Row(seq + 1, u)} ELSE rows

NextSeq(exists, seq) == IF exists THEN seq + 1 ELSE seq

Idle == call.pc \in {"idle", "done"}

NoCall ==
    [pc |-> "idle", stmts |-> <<>>, fin |-> "nil", i |-> 1, invoked |-> FALSE,
     before |-> {}, work |-> {}, events |-> <<>>,
     fnOut |-> [kind |-> "nil", val |-> NoErr],
     endErr |-> NoErr, result |-> [kind |-> "nil", val |-> NoErr]]

\* A completed facade call: what it returned (ret, err), the committed rows
\* before it, and the errors the driver reported to the facade inside it (a
\* facade that ends in "return err" reports exactly what it returns).
Completed(op, arg, ret, err, before) ==
    [op |-> op, arg |-> arg, ret |-> ret, err |-> err, before |-> before,
     reported |-> {err} \ {NoErr}]

\* (mutant: the table is created anew, without IF NOT EXISTS semantics)
CreateTableAnew ==
    /\ Idle
    /\ db' = [exists |-> TRUE, rows |-> {}, seq |-> 0]
    /\ last' = Completed("CreateTable", <<>>, 0, NoErr, db.rows)
    /\ call' = NoCall
    /\ UNCHANGED <<harnessVars, counterVars, cacheVars, docVars>>

\* CREATE TABLE IF NOT EXISTS users (...)
CreateTable ==
    /\ Idle
    /\ db' = [db EXCEPT !.exists = TRUE]
    /\ last' = Completed("CreateTable", <<>>, 0, NoErr, db.rows)
    /\ call' = NoCall
    /\ UNCHANGED <<harnessVars, counterVars, cacheVars, docVars>>

\* DROP TABLE IF EXISTS users: the rows go, and the sequence the table owns.
DropTable ==
    /\ Idle
    /\ db' = [exists |-> FALSE, rows |-> {}, seq |-> 0]
    /\ last' = Completed("DropTable", <<>>, 0, NoErr, db.rows)
    /\ call' = NoCall
    /\ UNCHANGED <<harnessVars, counterVars, cacheVars, docVars>>

\* InsertUser(ctx, table, name, email): INSERT ... RETURNING id, on its own
\* (auto-commit) connection; returns (id, err).
InsertUser(u) ==
    /\ Idle
    /\ db.seq < MaxSeq
    /\ LET err == InsertErr(db.exists, db.rows, u) IN
       /\ db' = [db EXCEPT !.rows = InsertRows(db.exists, db.rows, db.seq, u),
                           !.seq = NextSeq(db.exists, db.seq)]
       /\ last' = Completed("InsertUser", u,
                            IF err = NoErr THEN db.seq + 1 ELSE 0, err, db.rows)
    /\ call' = NoCall
    /\ UNCHANGED <<harnessVars, counterVars, cacheVars, docVars>>

\* ---- ExecuteInTransaction(ctx, fn) ----------------------------------------

Stmts == UNION {[1..n -> Users] : n \in 0..MaxStmts}

\* tx, err := c.BeginTransaction(ctx); if err != nil { return err }
\* The function fn is the caller's: it runs stmts in order, returns the first
\* error, and after the last statement returns nil, returns an error of its own,
\* or panics (fin).
TxBegin ==
    /\ Idle
    /\ \E stmts \in Stmts, fin \in {"nil", "err", "panic"}, ok \in BOOLEAN :
         IF ok
         THEN /\ call' = [NoCall EXCEPT !.pc = "fn", !.stmts = stmts, !.fin = fin,
                                         !.before = db.rows, !.work = db.rows,
                                         !.events = <<"Begin">>, !.invoked = TRUE]
              /\ UNCHANGED last
         ELSE /\ call' = [NoCall EXCEPT !.pc = "done",
                                         !.before = db.rows, !.work = db.rows,
                                         !.result = [kind |-> "err",
                                                     val |-> "begin_failed"]]
              /\ last' = Completed("ExecuteInTransaction", <<>>, 0,
                                   "begin_failed", db.rows)
    /\ UNCHANGED <<db, harnessVars, counterVars, cacheVars, docVars>>

\* tx.ExecContext(ctx, "INSERT ...", name, email) inside fn; on an error fn
\* returns it (if err != nil { return err }).
TxStmt ==
    /\ call.pc = "fn"
    /\ call.i <= Len(call.stmts)
    /\ db.seq < MaxSeq
    /\ LET u == call.stmts[call.i]
           err == InsertErr(db.exists, call.work, u)
       IN  /\ db' = [db EXCEPT !.seq = NextSeq(db.exists, db.seq)]
           /\ call' = IF err = NoErr
                      THEN [call EXCEPT
                              !.work = InsertRows(db.exists, call.work, db.seq, u),
                              !.events = Append(@, "Exec"),
                              !.i = @ + 1]
                      ELSE [call EXCEPT
                              !.events = Append(@, "Exec"),
                              !.fnOut = [kind |-> "err", val |-> err],
                              !.pc = "end"]
    /\ UNCHANGED <<last, harnessVars, counterVars, cacheVars, docVars>>

\* fn is through its statements: it returns nil or its own error, or panics.
TxFnEnd ==
    /\ call.pc = "fn"
    /\ call.i > Len(call.stmts)
    /\ call' = [call EXCEPT
                  !.pc = "end",
                  !.fnOut = CASE call.fin = "nil" -> [kind |-> "nil", val |-> NoErr]
                              [] call.fin = "err" -> [kind |-> "err", val |-> "fn_error"]
                              [] OTHER -> [kind |-> "panic", val |-> "fn_panic"]]
    /\ UNCHANGED <<db, last, harnessVars, counterVars, cacheVars, docVars>>

\* What ExecuteInTransaction issues on the transaction once fn is over:
\*   if err := fn(tx); err != nil { tx.Rollback(); return err }
\*   defer: if p := recover(); p != nil { tx.Rollback(); panic(p) }
\*   return tx.Commit()
AlwaysCommit(out) == "Commit"

NoRecover(out) ==
    IF out.kind = "nil" THEN "Commit"
    ELSE IF out.kind = "err" THEN "Rollback" ELSE "None"

Finalizer(out) == IF out.kind = "nil" THEN "Commit" ELSE "Rollback"

\* What the caller gets: fn's own error or panic value as it is, else Commit's.
RollbackErrFirst(out, endErr) ==
    IF out.kind = "nil" \/ endErr # NoErr
    THEN [kind |-> IF endErr = NoErr THEN "nil" ELSE "err", val |-> endErr]
    ELSE out

Propagated(out, endErr) ==
    IF out.kind = "nil"
    THEN [kind |-> IF endErr = NoErr THEN "nil" ELSE "err", val |-> endErr]
    ELSE out

\* The end of ExecuteInTransaction: Commit or Rollback, each of which the driver
\* may fail; only a Commit that succeeds makes the transaction's rows visible.
TxEnd ==
    /\ call.pc = "end"
    /\ \E ok \in BOOLEAN :
         LET fz == Finalizer(call.fnOut)
             endErr == IF ok \/ fz = "None" THEN NoErr
                       ELSE IF fz = "Commit" THEN "commit_failed"
                       ELSE "rollback_failed"
             res == Propagated(call.fnOut, endErr)
         IN  /\ fz = "None" => ok
             /\ call' = [call EXCEPT
                           !.pc = "done",
                           !.events = IF fz = "None" THEN @ ELSE Append(@, fz),
                           !.endErr = endErr,
                           !.result = res]
             /\ db' = IF fz = "Commit" /\ ok
                      THEN [db EXCEPT !.rows = call.work]
                      ELSE db
             /\ last' = [Completed("ExecuteInTransaction", <<>>, 0, res.val,
                                   call.before)
                            EXCEPT !.reported =
                               {endErr, call.fnOut.val}
                                  \ {NoErr, "fn_error", "fn_panic"}]
    /\ UNCHANGED <<harnessVars, counterVars, cacheVars, docVars>>

\* ---- UpdateUser, DeleteUser, GetUser ---------------------------------------

\* The ids a caller passes.
Ids == 1..MaxSeq

\* fmt.Errorf("user with id %d not found", id)
NotFound == "user_not_found"

\* sql.ErrNoRows, what GetContext reports for an empty result.
ErrNoRows == "no_rows"

Matching(rows, id) == {r \in rows : r.id = id}

\* UPDATE users SET name = $1, email = $2 WHERE id = $3: the statement fails
\* when the table is missing or when the new email is held by another row.
UpdateErr(exists, rows, id, u) ==
    IF ~exists THEN "undefined_table"
    ELSE IF Matching(rows, id) # {}
            /\ \E r \in rows : r.id # id /\ r.email = u[2]
    THEN "unique_violation"
    ELSE NoErr

UpdateRows(rows, id, u) ==
    {IF r.id = id THEN Row(id, u) ELSE r : r \in rows}

\* if rowsAffected == 0 { return fmt.Errorf(... not found) } (mutant: no check)
NoRowsAffectedCheck(n) == NoErr

RowsAffectedErr(n) == IF n = 0 THEN NotFound ELSE NoErr

\* UpdateUser(ctx, table, id, name, email); drv: the driver call goes through.
UpdateUser(id, u) ==
    /\ Idle
    /\ \E drv \in BOOLEAN :
         LET sqlErr == IF drv THEN UpdateErr(db.exists, db.rows, id, u)
                      ELSE "driver_error"
             err == IF sqlErr # NoErr THEN sqlErr
                    ELSE RowsAffectedErr(Cardinality(Matching(db.rows, id)))
         IN  /\ db' = IF sqlErr = NoErr
                      THEN [db EXCEPT !.rows = UpdateRows(db.rows, id, u)]
                      ELSE db
             /\ last' = [Completed("UpdateUser", <<id, u>>, 0, err, db.rows)
                           EXCEPT !.reported = {sqlErr} \ {NoErr}]
    /\ call' = NoCall
    /\ UNCHANGED <<harnessVars, counterVars, cacheVars, docVars>>

\* DELETE FROM users WHERE id = $1
DeleteErr(exists) == IF ~exists THEN "undefined_table" ELSE NoErr

DeleteUser(id) ==
    /\ Idle
    /\ \E drv \in BOOLEAN :
         LET sqlErr == IF drv THEN DeleteErr(db.exists) ELSE "driver_error"
             err == IF sqlErr # NoErr THEN sqlErr
                    ELSE RowsAffectedErr(Cardinality(Matching(db.rows, id)))
         IN  /\ db' = IF sqlErr = NoErr
                      THEN [db EXCEPT !.rows = db.rows \ Matching(db.rows, id)]
                      ELSE db
             /\ last' = [Completed("DeleteUser", <<id>>, 0, err, db.rows)
                           EXCEPT !.reported = {sqlErr} \ {NoErr}]
    /\ call' = NoCall
    /\ UNCHANGED <<harnessVars, counterVars, cacheVars, docVars>>

\* SELECT * FROM users WHERE id = $1 into one User: GetContext reports
\* sql.ErrNoRows for an empty result.
SelectErr(exists, rows, id) ==
    IF ~exists THEN "undefined_table"
    ELSE IF Matching(rows, id) = {} THEN ErrNoRows
    ELSE NoErr

\* if err == sql.ErrNoRows { return nil, nil } (mutant: the error is passed on)
NoSentinel(e) == e

Sentinel(e) == IF e = ErrNoRows THEN NoErr ELSE e

\* GetUser(ctx, table, id): (user, err); ret is {} for a nil user, else {user}.
GetUser(id) ==
    /\ Idle
    /\ \E drv \in BOOLEAN :
         LET sqlErr == IF drv THEN SelectErr(db.exists, db.rows, id)
                      ELSE "driver_error"
         IN  last' = [Completed("GetUser", <<id>>,
                                IF sqlErr = NoErr THEN Matching(db.rows, id) ELSE {},
                                Sentinel(sqlErr), db.rows)
                        EXCEPT !.reported = {sqlErr} \ {NoErr}]
    /\ call' = NoCall
    /\ UNCHANGED <<db, harnessVars, counterVars, cacheVars, docVars>>

\* ---- GetUsersByNamePattern --------------------------------------------------

\* The names TestPostgreSQLWhereClause inserts, spelled out so that LIKE can
\* read them, and the patterns it may search with.
JohnDoe == <<"J", "o", "h", "n", " ", "D", "o", "e">>

JohnSmith == <<"J", "o", "h", "n", " ", "S", "m", "i", "t", "h">>

JaneDoe == <<"J", "a", "n", "e", " ", "D", "o", "e">>

NamedUsers ==
    { <<JohnDoe, "john@example.com">>,
      <<JohnSmith, "john.smith@example.com">>,
      <<JaneDoe, "jane@example.com">> }

Patterns ==
    { <<"J", "o", "h", "n", "%">>, <<"%", "D", "o", "e">>, <<"J", "_", "_", "e", "%">>,
      <<"j", "o", "h", "n", "%">>, <<"%">>, <<>>, JaneDoe, <<"%", "o", "%", "m", "%">> }

\* name LIKE pattern: % stands for any run of characters, _ for any one
\* character, every other character for itself; the whole name must match.
RECURSIVE Like(_, _)
Like(name, pattern) ==
    IF pattern = <<>> THEN name = <<>>
    ELSE IF Head(pattern) = "%"
    THEN Like(name, Tail(pattern)) \/ (name # <<>> /\ Like(Tail(name), pattern))
    ELSE /\ name # <<>>
         /\ Head(pattern) = "_" \/ Head(pattern) = Head(name)
         /\ Like(Tail(name), Tail(pattern))

\* (mutant: ORDER BY id DESC)
RECURSIVE OrderByIdDesc(_)
OrderByIdDesc(rows) ==
    IF rows = {} THEN <<>>
    ELSE LET r == CHOOSE x \in rows : \A y \in rows : x.id >= y.id
         IN  <<r>> \o OrderByIdDesc(rows \ {r})

\* ORDER BY id
RECURSIVE OrderById(_)
OrderById(rows) ==
    IF rows = {} THEN <<>>
    ELSE LET r == CHOOSE x \in rows : \A y \in rows : x.id <= y.id
         IN  <<r>> \o OrderById(rows \ {r})

\* SELECT * FROM users WHERE name LIKE $1 ORDER BY id
Select(rows, pattern) == OrderById({r \in rows : Like(r.name, pattern)})

\* GetUsersByNamePattern(ctx, table, pattern): (users, err)
GetUsersByNamePattern(pattern) ==
    /\ Idle
    /\ last' = Completed("GetUsersByNamePattern", <<pattern>>,
                         IF db.exists THEN Select(db.rows, pattern) ELSE <<>>,
                         IF db.exists THEN NoErr ELSE "undefined_table", db.rows)
    /\ call' = NoCall
    /\ UNCHANGED <<db, harnessVars, counterVars, cacheVars, docVars>>

InitTx ==
    /\ db = [exists |-> FALSE, rows |-> {}, seq |-> 0]
    /\ call = NoCall
    /\ last = Completed("NewClient", <<>>, 0, NoErr, {})

NextTx ==
    \/ CreateTable
    \/ DropTable
    \/ \E u \in Users : InsertUser(u)
    \/ TxBegin
    \/ TxStmt
    \/ TxFnEnd
    \/ TxEnd

\* A test that drives the facade's single-statement operations.
NextUsers ==
    \/ CreateTable
    \/ DropTable
    \/ \E u \in Users : InsertUser(u)
    \/ \E id \in Ids, u \in Users : UpdateUser(id, u)
    \/ \E id \in Ids : DeleteUser(id)
    \/ \E id \in Ids : GetUser(id)

\* TestPostgreSQLWhereClause, with its users inserted in any order, some of
\* them deleted, and any of the patterns.
NextWhere ==
    \/ CreateTable
    \/ \E u \in NamedUsers : InsertUser(u)
    \/ \E id \in Ids : DeleteUser(id)
    \/ \E pattern \in Patterns : GetUsersByNamePattern(pattern)

\* ---- claims about the relational facade ----------------------------------

\* ExecuteInTransaction has just returned (or re-panicked) to its caller.
Returned == call.pc = "done" /\ last.op = "ExecuteInTransaction"

FnFailed == call.fnOut.kind \in {"err", "panic"}

AllVisible ==
    /\ db.rows = call.work
    /\ \A k \in 1..Len(call.stmts) :
          \E r \in db.rows \ call.before :
             <<r.name, r.email>> = call.stmts[k]

\* C4 as stated: if the function fails after a statement that succeeded, the
\* table equals its contents before the transaction; if the function returns
\* nil, all of its statements are visible.
C4_AsStated ==
    (Returned /\ call.invoked) =>
       /\ FnFailed => db.rows = call.before
       /\ ~FnFailed => AllVisible

\* C4 (amended): if the function fails, the table equals its contents before the
\* transaction; if the function returns nil and Commit succeeds, all of its
\* statements are visible together; if Commit fails, ExecuteInTransaction
\* returns Commit's error and none of them is visible.
C4_TransactionAtomicity ==
    (Returned /\ call.invoked) =>
       /\ FnFailed => db.rows = call.before
       /\ (~FnFailed /\ call.result.kind = "nil") => AllVisible
       /\ (~FnFailed /\ call.result.kind # "nil")
             => /\ db.rows = call.before
                /\ call.result = [kind |-> "err", val |-> "commit_failed"]

\* A transaction inserted A, failed on the duplicate email of B, and returned.
C4_Witness ==
    /\ Returned
    /\ call.fnOut = [kind |-> "err", val |-> "unique_violation"]
    /\ call.work # call.before
    /\ call.before # {}
    /\ db.rows = call.before

Count(seq, x) == Cardinality({i \in 1..Len(seq) : seq[i] = x})

C6_OriginalFailurePropagated ==
    (Returned /\ call.invoked /\ FnFailed) =>
       /\ call.result = call.fnOut
       /\ call.events[Len(call.events)] = "Rollback"

\* The function failed, the rollback failed too, and the caller got the
\* function's own error.
C6_Witness ==
    /\ Returned
    /\ call.fnOut.kind = "err"
    /\ call.endErr = "rollback_failed"
    /\ call.result = call.fnOut

\* What the caller of ExecuteInTransaction observes of errors: the value
\* returned or re-panicked (nothing is logged).
Surfaced == {call.result.val, last.err}

\* C7: a rollback that itself fails is surfaced to the caller.
C7_RollbackFailureSurfaced ==
    (Returned /\ call.endErr = "rollback_failed") => "rollback_failed" \in Surfaced

\* C9: no two rows share an email, and an InsertUser whose email the table
\* already holds returns an error and leaves the rows as they were.
C9_EmailUnique ==
    /\ \A r1, r2 \in db.rows : r1.email = r2.email => r1 = r2
    /\ (last.op = "InsertUser" /\ last.arg[2] \in Emails(last.before))
          => /\ last.err # NoErr
             /\ db.rows = last.before

\* The second InsertUser with john@example.com failed and one row is left.
C9_Witness ==
    /\ last.op = "InsertUser"
    /\ last.arg[2] = "john@example.com"
    /\ last.err = "unique_violation"
    /\ Cardinality({r \in db.rows : r.email = "john@example.com"}) = 1

\* C12: facades never swallow errors: every error the driver reported for a
\* call made inside a facade operation is the error the operation returned.
C12_NoErrorSwallowed ==
    \A e \in last.reported : last.err = e

\* The statement of the last UpdateUser / DeleteUser / GetUser was executed by
\* the server against an existing table.
Executed == db.exists /\ "driver_error" \notin last.reported

Hit == Matching(last.before, last.arg[1])

Effect ==
    IF last.op = "UpdateUser"
    THEN UpdateRows(last.before, last.arg[1], last.arg[2])
    ELSE last.before \ Hit

\* C15 as stated: with an id that matches no row UpdateUser and DeleteUser return
\* the not-found error and leave the table unchanged; with an existing id they
\* return nil and change or remove exactly that row.
C15_AsStated ==
    (last.op \in {"UpdateUser", "DeleteUser"} /\ Executed)
       => IF Hit = {}
          THEN last.err = NotFound /\ db.rows = last.before
          ELSE last.err = NoErr /\ db.rows = Effect

\* C15: the same, except that an UpdateUser of an existing id whose new email is
\* held by another row returns the unique-constraint error and changes nothing.
C15_UpdateDeleteNotFound ==
    (last.op \in {"UpdateUser", "DeleteUser"} /\ Executed)
       => IF Hit = {}
          THEN last.err = NotFound /\ db.rows = last.before
          ELSE IF /\ last.op = "UpdateUser"
                  /\ \E r \in last.before \ Hit : r.email = last.arg[2][2]
          THEN last.err = "unique_violation" /\ db.rows = last.before
          ELSE last.err = NoErr /\ db.rows = Effect

\* An UpdateUser changed one of several rows.
C15_Witness ==
    /\ last.op = "UpdateUser"
    /\ Executed
    /\ last.err = NoErr
    /\ Cardinality(db.rows) >= 2
    /\ db.rows # last.before

\* C16: GetUser returns the stored record when a row with the id exists, and
\* (nil, nil) when none does; the absence of the row is never an error.
C16_GetUserSentinel ==
    (last.op = "GetUser" /\ Executed)
       => /\ last.err = NoErr
          /\ last.ret = Hit
          /\ Cardinality(last.ret) <= 1

\* GetUser of an id the sequence has handed out and that is in no row (the row
\* was deleted, or its insert failed) returned (nil, nil).
C16_Witness ==
    /\ last.op = "GetUser"
    /\ Executed
    /\ last.arg[1] <= db.seq
    /\ Hit = {}
    /\ last.ret = {}
    /\ last.err = NoErr
    /\ db.rows # {}

\* C24: GetUsersByNamePattern returns exactly the rows whose name matches the
\* LIKE pattern, each once, in ascending order of id; with John Doe, John Smith
\* and Jane Doe inserted in that order, "John%" returns the two John rows, John
\* Doe first.
C24_NamePatternSelect ==
    (last.op = "GetUsersByNamePattern" /\ db.exists)
       => LET got == last.ret
              pattern == last.arg[1]
          IN  /\ last.err = NoErr
              /\ {got[i] : i \in 1..Len(got)}
                    = {r \in db.rows : Like(r.name, pattern)}
              /\ \A i \in 1..Len(got), j \in 1..Len(got) :
                    i < j => got[i].id < got[j].id
              /\ (pattern = <<"J", "o", "h", "n", "%">>
                    /\ {<<r.id, r.name>> : r \in db.rows}
                          = {<<1, JohnDoe>>, <<2, JohnSmith>>, <<3, JaneDoe>>})
                    => /\ Len(got) = 2
                       /\ got[1].name = JohnDoe
                       /\ got[2].name = JohnSmith

\* The test's three users in the table: "John%" returned two rows with
\* different names, the one with the smaller id first.
C24_Witness ==
    /\ last.op = "GetUsersByNamePattern"
    /\ last.arg = << <<"J", "o", "h", "n", "%">> >>
    /\ Cardinality(db.rows) = Cardinality(NamedUsers)
    /\ Len(last.ret) = 2
    /\ last.ret[1].name # last.ret[2].name
    /\ last.ret[1].id < last.ret[2].id

(***************************************************************************)
(*        PART 3: CONCURRENT Increment / Decrement (redis.Client)          *)
(***************************************************************************)

Callers == {"c1", "c2", "c3"}

\* Each caller makes at most MaxCalls calls.
MaxCalls == 1

\* c.rdb.Incr(ctx, key) and c.rdb.Decr(ctx, key): the one command each facade
\* method sends.
DecrementSendsIncr == "INCR"

IncrementCmd == "INCR"

DecrementCmd == "DECR"

\* INCR / DECR in the server: an absent key counts as 0; the command runs as a
\* whole (the server executes one command at a time).
Exec(cmd, v) == IF cmd = "INCR" THEN v + 1 ELSE v - 1

Value(k) == IF k.present THEN k.val ELSE 0

\* The facade method is called: its command is on the way to the server.
Send(c, op, cmd) ==
    /\ clients[c].st = "idle"
    /\ clients[c].n < MaxCalls
    /\ clients' = [clients EXCEPT ![c] = [@ EXCEPT !.st = "sent", !.op = op,
                                                   !.cmd = cmd, !.n = @ + 1]]
    /\ UNCHANGED <<kv, history, harnessVars, txVars, cacheVars, docVars>>

Increment(c) == Send(c, "Increment", IncrementCmd)

Decrement(c) == Send(c, "Decrement", DecrementCmd)

\* The server executes one of the commands it has received and replies.
ServerExec(c) ==
    /\ clients[c].st = "sent"
    /\ LET v == Exec(clients[c].cmd, Value(kv)) IN
       /\ kv' = [kv EXCEPT !.present = TRUE, !.val = v]
       /\ clients' = [clients EXCEPT ![c] = [@ EXCEPT !.st = "replied", !.ret = v]]
       /\ history' = Append(history, [c |-> c, op |-> clients[c].op, ret |-> v])
    /\ UNCHANGED <<harnessVars, txVars, cacheVars, docVars>>

\* .Result(): the reply reaches the caller, the method returns (value, nil).
Reply(c) ==
    /\ clients[c].st = "replied"
    /\ clients' = [clients EXCEPT ![c].st = "idle"]
    /\ UNCHANGED <<kv, history, harnessVars, txVars, cacheVars, docVars>>

InitCounter ==
    /\ kv \in { [present |-> FALSE, val |-> 0, init |-> 0],
                [present |-> TRUE, val |-> 0, init |-> 0],
                [present |-> TRUE, val |-> 7, init |-> 7],
                [present |-> TRUE, val |-> -1, init |-> -1] }
    /\ clients = [c \in Callers |->
                    [st |-> "idle", op |-> "none", cmd |-> "none", ret |-> 0, n |-> 0]]
    /\ history = <<>>

NextCounter ==
    \E c \in Callers :
       \/ Increment(c)
       \/ Decrement(c)
       \/ ServerExec(c)
       \/ Reply(c)

\* ---- claims about the counter -------------------------------------------

\* What a call of op returns when it runs alone on value v.
Sequential(op, v) == IF op = "Increment" THEN v + 1 ELSE v - 1

RECURSIVE After(_, _)
\* The value after the first n executed calls run one after the other.
After(n, v0) == IF n = 0 THEN v0 ELSE Sequential(history[n].op, After(n - 1, v0))

Quiescent == \A c \in Callers : clients[c].st = "idle"

Calls(op) == Cardinality({i \in 1..Len(history) : history[i].op = op})

\* C8: whatever the interleaving, no update is lost (once every call has
\* returned the value is the initial one plus the increments minus the
\* decrements, each call having taken effect once) and every call returned what
\* it returns in one sequential order of the calls, the order of execution.
C8_AtomicCounter ==
    /\ \A i \in 1..Len(history) : history[i].ret = After(i, kv.init)
    /\ Value(kv) = kv.init + Calls("Increment") - Calls("Decrement")
    /\ \A c \in Callers :
          Cardinality({i \in 1..Len(history) : history[i].c = c})
             = clients[c].n - (IF clients[c].st = "sent" THEN 1 ELSE 0)
    /\ \A c \in Callers :
          clients[c].st = "replied"
             => \E i \in 1..Len(history) :
                   history[i].c = c /\ history[i].ret = clients[c].ret

\* Three callers were in their calls at once, increments and a decrement among
\* them, and all have returned.
C8_Witness ==
    /\ Quiescent
    /\ Len(history) >= 3
    /\ Calls("Increment") >= 1
    /\ Calls("Decrement") >= 1
    /\ history[1].c # history[2].c

(***************************************************************************)
(*        PART 4: THE CACHE FACADE, ONE CALLER (redis.Client)              *)
(***************************************************************************)

\* The keys the tests use.
Keys == {"test-key", "counter"}

\* The clock runs up to MaxTime milliseconds; a ttl is at most MaxTtl.
MaxTime == 3

MaxTtl == 2

\* A counter is incremented at most MaxCount times and decremented at most
\* MaxDecs times in a row.
MaxCount == 10

MaxDecs == 1

\* ---- Go values, and the strings the server keeps ---------------------------

\* A string is the sequence of its characters.  The value parameter of Set is
\* an interface{}: a string, an int, a bool, or a value the client library has
\* no encoding for (a slice, a map, a struct).
Str(s) == [t |-> "string", v |-> s]

IntVal(n) == [t |-> "int", v |-> n]

BoolVal(b) == [t |-> "bool", v |-> b]

SliceVal == [t |-> "slice", v |-> <<>>]

GoValues ==
    {Str(<<"v">>), Str(<<"1", "0">>), IntVal(10), BoolVal(TRUE), SliceVal}

Digits == <<"0", "1", "2", "3", "4", "5", "6", "7", "8", "9">>

DigitChars == {Digits[i] : i \in 1..Len(Digits)}

ValOf(c) == (CHOOSE i \in 1..Len(Digits) : Digits[i] = c) - 1

\* The decimal string of an integer, as the server writes it back after INCR
\* and as the client library writes an int argument.
RECURSIVE UItoa(_)
UItoa(n) ==
    IF n < Len(Digits) THEN <<Digits[n + 1]>>
    ELSE UItoa(n \div Len(Digits)) \o <<Digits[(n % Len(Digits)) + 1]>>

Itoa(n) == IF n < 0 THEN <<"-">> \o UItoa(0 - n) ELSE UItoa(n)

RECURSIVE UAtoi(_)
UAtoi(s) ==
    IF s = <<>> THEN 0
    ELSE UAtoi(SubSeq(s, 1, Len(s) - 1)) * Len(Digits) + ValOf(s[Len(s)])

\* Digits only, no leading zero.
Canonical(s) ==
    /\ s # <<>>
    /\ \A i \in 1..Len(s) : s[i] \in DigitChars
    /\ Len(s) > 1 => s[1] # "0"

\* The server reads a stored string as an integer only in its canonical form.
ParseInt(s) ==
    IF Canonical(s) THEN [ok |-> TRUE, n |-> UAtoi(s)]
    ELSE IF s # <<>> /\ s[1] = "-" /\ Canonical(Tail(s)) /\ Tail(s) # <<"0">>
    THEN [ok |-> TRUE, n |-> 0 - UAtoi(Tail(s))]
    ELSE [ok |-> FALSE, n |-> 0]

\* How the client library writes the value argument of a command.
Encode(v) ==
    CASE v.t = "string" -> [ok |-> TRUE, s |-> v.v]
      [] v.t = "int" -> [ok |-> TRUE, s |-> Itoa(v.v)]
      [] v.t = "bool" -> [ok |-> TRUE, s |-> IF v.v THEN <<"1">> ELSE <<"0">>]
      [] OTHER -> [ok |-> FALSE, s |-> <<>>]

\* ---- the server --------------------------------------------------------------

NoExpiry == 0

\* An entry is a string or a list of strings (kind); val is the string, or the
\* list's elements from its head.
Absent == [present |-> FALSE, val |-> <<>>, exp |-> NoExpiry, kind |-> "none"]

\* WRONGTYPE: a string command on a list, a list command on a string.
WrongType == "wrong_type"

\* redis.Nil
KeyNil == "redis_nil"

\* A key with an expiry is gone once the clock is past it (mutant: never).
NeverExpires(e, now) == e.present

Live(e, now) == e.present /\ (e.exp = NoExpiry \/ now <= e.exp)

\* The entry of key k as a command sees it.
View(k) == IF Live(cache.data[k], cache.now) THEN cache.data[k] ELSE Absent

Contents == [k \in Keys |-> View(k)]

\* SET key value [PX ms]: expiration 0 means no expiry.
ExpireAt(now, ttl) == IF ttl > 0 THEN now + ttl ELSE NoExpiry

\* ---- what the test knows about a key ---------------------------------------

\* never touched | deleted | set to v with ttl at time at | counted up from absent
\* by incs Increments and decs Decrements | changed otherwise
Knows(st, v, ttl, at, incs, decs) ==
    [st |-> st, v |-> v, ttl |-> ttl, at |-> at, incs |-> incs, decs |-> decs]

Unknown(st) == Knows(st, Str(<<>>), 0, 0, 0, 0)

Fresh(g) == g.st \in {"never", "deleted"}

Counted(g, op) ==
    LET i == IF op = "Increment" THEN 1 ELSE 0 IN
    IF Fresh(g) THEN Knows("counted", Str(<<>>), 0, 0, i, 1 - i)
    ELSE IF g.st = "counted"
    THEN [g EXCEPT !.incs = @ + i, !.decs = @ + (1 - i)]
    ELSE Unknown("changed")

\* ---- the facade methods ------------------------------------------------------

\* A call returns: the server's keys after it, and what the caller got (val: a
\* string result, n: an integer result, list: a []string result of the range rg).
Replies(op, ks, val, n, list, rg, err, data, known) ==
    /\ cache' = [cache EXCEPT !.data = data]
    /\ reply' = [op |-> op, keys |-> ks, val |-> val, n |-> n, err |-> err,
                 list |-> list, range |-> rg,
                 at |-> cache.now, before |-> Contents, known |-> known]
    /\ UNCHANGED <<harnessVars, txVars, counterVars, docVars>>

Returns(op, ks, val, n, err, data, known) ==
    Replies(op, ks, val, n, <<>>, <<0, 0>>, err, data, known)

\* Set(ctx, key, value, expiration): c.rdb.Set(...).Err()
Set(k, v, ttl) ==
    LET enc == Encode(v) IN
    IF enc.ok
    THEN Returns("Set", {k}, <<>>, 0, NoErr,
                 [cache.data EXCEPT ![k] = [present |-> TRUE, val |-> enc.s,
                                            exp |-> ExpireAt(cache.now, ttl),
                                            kind |-> "string"]],
                 [reply.known EXCEPT ![k] = Knows("set", v, ttl, cache.now, 0, 0)])
    ELSE Returns("Set", {k}, <<>>, 0, "cannot_marshal", cache.data, reply.known)

\* Get(ctx, key): c.rdb.Get(ctx, key).Result()
Get(k) ==
    Returns("Get", {k},
            IF View(k).kind = "list" THEN <<>> ELSE View(k).val, 0,
            IF View(k).kind = "list" THEN WrongType
            ELSE IF View(k).present THEN NoErr ELSE KeyNil,
            [cache.data EXCEPT ![k] = View(k)], reply.known)

\* DEL removes the keys (mutant: it removes nothing).
DelNothing(data, ks) == data

DelData(data, ks) == [k \in Keys |-> IF k \in ks THEN Absent ELSE data[k]]

\* Delete(ctx, keys...): c.rdb.Del(ctx, keys...).Err()
Delete(ks) ==
    Returns("Delete", ks, <<>>, 0, NoErr, DelData(cache.data, ks),
            [k \in Keys |-> IF k \in ks THEN Unknown("deleted") ELSE reply.known[k]])

\* Exists(ctx, keys...): c.rdb.Exists(ctx, keys...).Result()
Exists(ks) ==
    Returns("Exists", ks, <<>>, Cardinality({k \in ks : View(k).present}), NoErr,
            [k \in Keys |-> IF k \in ks THEN View(k) ELSE cache.data[k]],
            reply.known)

\* INCR / DECR on the stored string: an absent key counts as 0, a string that is
\* no integer is an error; the result is written back in decimal, the expiry stays.
Arith(op, k, d) ==
    /\ reply.known[k].incs < MaxCount
    /\ reply.known[k].decs < MaxDecs \/ op = "Increment"
    /\ LET e == View(k)
           p == IF e.kind = "list" THEN [ok |-> FALSE, n |-> 0]
                ELSE IF e.present THEN ParseInt(e.val) ELSE [ok |-> TRUE, n |-> 0]
           known == [reply.known EXCEPT ![k] = Counted(@, op)]
       IN  IF p.ok
           THEN Returns(op, {k}, <<>>, p.n + d, NoErr,
                        [cache.data EXCEPT ![k] = [present |-> TRUE,
                                                   val |-> Itoa(p.n + d),
                                                   exp |-> e.exp,
                                                   kind |-> "string"]],
                        known)
           ELSE Returns(op, {k}, <<>>, 0,
                        IF e.kind = "list" THEN WrongType ELSE "not_an_integer",
                        [cache.data EXCEPT ![k] = e],
                        [reply.known EXCEPT ![k] = Unknown("changed")])

\* (mutant: Increment sends DECR)
IncrSendsDecr(k) == Arith("Increment", k, 0 - 1)

\* Increment(ctx, key): c.rdb.Incr(ctx, key).Result()
Incr(k) == Arith("Increment", k, 1)

\* Decrement(ctx, key): c.rdb.Decr(ctx, key).Result()
Decr(k) == Arith("Decrement", k, 0 - 1)

\* time.Sleep: a millisecond passes.
Tick ==
    /\ cache.now < MaxTime
    /\ cache' = [cache EXCEPT !.now = @ + 1]
    /\ UNCHANGED <<reply, harnessVars, txVars, counterVars, docVars>>

\* A fresh instance: no key.
InitCache ==
    /\ cache = [now |-> 0, data |-> [k \in Keys |-> Absent]]
    /\ reply = [op |-> "NewClient", keys |-> {}, val |-> <<>>, n |-> 0,
                err |-> NoErr, list |-> <<>>, range |-> <<0, 0>>,
                at |-> 0, before |-> [k \in Keys |-> Absent],
                known |-> [k \in Keys |-> Unknown("never")]]

KeySets == (SUBSET Keys) \ {{}}

\* TestRedisBasicOperations, with any value.
NextCache ==
    \/ \E k \in Keys, v \in GoValues : Set(k, v, 0)
    \/ \E k \in Keys : Get(k)
    \/ \E ks \in KeySets : Delete(ks)
    \/ \E ks \in KeySets : Exists(ks)

\* TestRedisExpiration, with any ttl and any wait.
NextExpiry ==
    \/ \E k \in Keys, ttl \in 0..MaxTtl : Set(k, Str(<<"v">>), ttl)
    \/ \E k \in Keys : Get(k)
    \/ \E k \in Keys : Delete({k})
    \/ Tick

\* TestRedisIncrement / TestDistributedCounter, with any number of calls.
NextCount ==
    \/ \E k \in Keys : Incr(k)
    \/ \E k \in Keys : Decr(k)
    \/ \E k \in Keys : Get(k)
    \/ \E k \in Keys : Delete({k})

\* ---- lists ----------------------------------------------------------------------

\* A push passes at most MaxPush values; a list grows to at most MaxList
\* elements, and LRange is called with indexes from -MaxList to MaxList.
MaxPush == 2

MaxList == 3

\* The key of the list test, and the elements it pushes.
ListKeys == {"test-key"}

Items == {Str(<<"i", "1">>), Str(<<"i", "2">>), IntVal(10)}

\* values ...interface{}: each argument is sent in the client's encoding of it;
\* one that cannot be encoded fails the command before anything is sent.
Encodable(xs) == \A i \in 1..Len(xs) : Encode(xs[i]).ok

Encoded(xs) == [i \in 1..Len(xs) |-> Encode(xs[i]).s]

Pushes == UNION {[1..n -> Items] : n \in 1..MaxPush}

RECURSIVE Reverse(_)
Reverse(xs) == IF xs = <<>> THEN <<>> ELSE Reverse(Tail(xs)) \o <<Head(xs)>>

\* RPUSH appends the values in the order given; LPUSH puts each value in turn
\* at the head, so the last one given ends up first.
AtTail(list, xs) == list \o xs

\* (mutant: LPUSH keeps the order given)
AtHeadInOrder(list, xs) == xs \o list

AtHead(list, xs) == Reverse(xs) \o list

\* What the test knows after a push: the values, if the key was absent.
Pushed(g, st, xs) ==
    IF Fresh(g) THEN Knows(st, [t |-> "list", v |-> xs], 0, 0, 0, 0)
    ELSE Unknown("changed")

Push(op, st, k, xs, list) ==
    /\ Len(View(k).val) + Len(xs) <= MaxList \/ View(k).kind # "list"
    /\ IF ~Encodable(xs)
       THEN Returns(op, {k}, <<>>, 0, "marshal_error",
                    [cache.data EXCEPT ![k] = View(k)], reply.known)
       ELSE IF View(k).kind = "string"
       THEN Returns(op, {k}, <<>>, 0, WrongType,
                    [cache.data EXCEPT ![k] = View(k)],
                    [reply.known EXCEPT ![k] = Unknown("changed")])
       ELSE Returns(op, {k}, <<>>, 0, NoErr,
                    [cache.data EXCEPT ![k] = [present |-> TRUE, val |-> list,
                                               exp |-> View(k).exp,
                                               kind |-> "list"]],
                    [reply.known EXCEPT ![k] = Pushed(@, st, xs)])

\* RPush(ctx, key, values...): c.rdb.RPush(ctx, key, values...).Err()
RPush(k, xs) ==
    Push("RPush", "rpushed", k, xs,
         AtTail(IF View(k).kind = "list" THEN View(k).val ELSE <<>>, Encoded(xs)))

\* LPush(ctx, key, values...): c.rdb.LPush(ctx, key, values...).Err()
LPush(k, xs) ==
    Push("LPush", "lpushed", k, xs,
         AtHead(IF View(k).kind = "list" THEN View(k).val ELSE <<>>, Encoded(xs)))

\* LRANGE key start stop on a list: a negative index counts from the end, the
\* range is cut to the list, both ends are included.
From(list, start) ==
    LET a == IF start < 0 THEN Len(list) + start ELSE start IN
    IF a < 0 THEN 0 ELSE a

To(list, stop) ==
    LET b == IF stop < 0 THEN Len(list) + stop ELSE stop IN
    IF b >= Len(list) THEN Len(list) - 1 ELSE b

Range(list, start, stop) ==
    IF From(list, start) > To(list, stop) \/ From(list, start) >= Len(list)
    THEN <<>>
    ELSE SubSeq(list, From(list, start) + 1, To(list, stop) + 1)

\* LRange(ctx, key, start, stop): c.rdb.LRange(ctx, key, start, stop).Result()
LRange(k, start, stop) ==
    Replies("LRange", {k}, <<>>, 0,
            IF View(k).kind = "list" THEN Range(View(k).val, start, stop) ELSE <<>>,
            <<start, stop>>,
            IF View(k).kind = "string" THEN WrongType ELSE NoErr,
            [cache.data EXCEPT ![k] = View(k)], reply.known)

Indexes == (0 - MaxList)..MaxList

\* TestRedisList, with any values and any range.
NextList ==
    \/ \E k \in ListKeys, xs \in Pushes : RPush(k, xs)
    \/ \E k \in ListKeys, xs \in Pushes : LPush(k, xs)
    \/ \E k \in ListKeys, start \in Indexes, stop \in Indexes : LRange(k, start, stop)
    \/ \E k \in ListKeys : Set(k, Str(<<"v">>), 0)
    \/ \E ks \in KeySets : Delete(ks)

\* ---- claims about the cache facade ------------------------------------------

\* The last call was op on the single key k.
Called(op, k) == reply.op = op /\ reply.keys = {k}

\* The test set k with no expiry and has not written it since.
Kept(k) == reply.known[k].st = "set" /\ reply.known[k].ttl = 0

\* C18 as stated: for every value v, Get after Set(k, v, 0) returns exactly v
\* without error; Exists is then 1, and 0 after Delete.
C18_AsStated ==
    \A k \in Keys :
       /\ (Called("Get", k) /\ Kept(k))
             => reply.err = NoErr /\ Str(reply.val) = reply.known[k].v
       /\ (Called("Exists", k) /\ Kept(k)) => reply.n = 1
       /\ (Called("Exists", k) /\ reply.known[k].st = "deleted") => reply.n = 0

\* C18: for every string value v, Get after Set(k, v, 0) with no write to k in
\* between returns exactly v without error; Exists is then 1, and 0 after Delete.
C18_CacheRoundTrip ==
    \A k \in Keys :
       /\ (Called("Get", k) /\ Kept(k) /\ reply.known[k].v.t = "string")
             => reply.err = NoErr /\ reply.val = reply.known[k].v.v
       /\ (Called("Exists", k) /\ Kept(k)) => reply.n = 1 /\ reply.err = NoErr
       /\ (Called("Exists", k) /\ reply.known[k].st = "deleted")
             => reply.n = 0 /\ reply.err = NoErr

\* A Get returned the string that was set, while the other key was deleted.
C18_Witness ==
    \E k, j \in Keys :
       /\ Called("Get", k)
       /\ Kept(k)
       /\ reply.known[k].v = Str(<<"1", "0">>)
       /\ reply.val = <<"1", "0">>
       /\ reply.known[j].st = "deleted"

\* Time since the test set k, at the last call.
Elapsed(k) == reply.at - reply.known[k].at

\* C19: a Get of a key set with ttl t > 0 returns the value before t has
\* elapsed, and after more than t fails with the error and result that a Get
\* of a never-set key gives (redis.Nil).
C19_TtlExpiry ==
    \A k \in Keys :
       LET g == reply.known[k] IN
       Called("Get", k)
          => /\ (g.st = "set" /\ g.ttl > 0 /\ Elapsed(k) < g.ttl)
                   => reply.err = NoErr /\ reply.val = g.v.v
             /\ (g.st = "set" /\ g.ttl > 0 /\ Elapsed(k) > g.ttl)
                   => reply.err = KeyNil /\ reply.val = <<>>
             /\ g.st = "never" => reply.err = KeyNil /\ reply.val = <<>>

\* A Get after more than the ttl failed with redis.Nil.
C19_Witness ==
    \E k \in Keys :
       /\ Called("Get", k)
       /\ reply.known[k].st = "set"
       /\ reply.known[k].ttl > 0
       /\ Elapsed(k) > reply.known[k].ttl
       /\ reply.err = KeyNil

\* C20: on a key that was absent, the n-th Increment in a row returns n and
\* leaves the decimal string of n; a Decrement after n Increments returns n - 1;
\* Get returns the decimal string of the current value.
C20_SequentialCounter ==
    \A k \in Keys :
       LET g == reply.known[k] IN
       g.st = "counted"
          => /\ (Called("Increment", k) /\ g.decs = 0)
                   => /\ reply.err = NoErr
                      /\ reply.n = g.incs
                      /\ View(k).val = Itoa(g.incs)
             /\ (Called("Decrement", k) /\ g.decs = 1)
                   => reply.err = NoErr /\ reply.n = g.incs - 1
             /\ Called("Get", k)
                   => /\ reply.err = NoErr
                      /\ reply.val = Itoa(g.incs - g.decs)
                      /\ ParseInt(reply.val) = [ok |-> TRUE, n |-> g.incs - g.decs]

\* Ten Increments on a fresh key, then Get returned "10".
C20_Witness ==
    \E k \in Keys :
       /\ Called("Get", k)
       /\ reply.known[k].st = "counted"
       /\ reply.known[k].incs = Len(Digits)
       /\ reply.known[k].decs = 0
       /\ reply.val = <<"1", "0">>

\* C17: CreateTable succeeds and keeps the rows of a table that exists;
\* DropTable succeeds and leaves no table, as a missing table is; Delete
\* succeeds, leaves its keys absent and every other key as it was: on keys that
\* were absent nothing changes, and each has the same effect twice as once.
C17_Idempotence ==
    /\ last.op = "CreateTable"
          => last.err = NoErr /\ db.exists /\ db.rows = last.before
    /\ last.op = "DropTable"
          => last.err = NoErr /\ db = [exists |-> FALSE, rows |-> {}, seq |-> 0]
    /\ reply.op = "Delete"
          => /\ reply.err = NoErr
             /\ \A k \in Keys :
                   View(k) = IF k \in reply.keys THEN Absent ELSE reply.before[k]
             /\ (\A k \in reply.keys : ~reply.before[k].present)
                   => Contents = reply.before

\* CreateTable was called on a table with rows, and Delete on an absent key
\* beside a key that is set.
C17_Witness ==
    /\ last.op = "CreateTable"
    /\ db.rows # {}
    /\ reply.op = "Delete"
    /\ \A k \in reply.keys : ~reply.before[k].present
    /\ \E k \in Keys : View(k).present

\* The values pushed onto the absent key k, in the order the claim gives for
\* the list: as pushed after RPush, reversed after LPush.
Expected(g) == IF g.st = "rpushed" THEN g.v.v ELSE Reverse(g.v.v)

Strs(list) == [i \in 1..Len(list) |-> Str(list[i])]

\* The test pushed onto the absent key k and has not written k since.
PushedOnly(k) == reply.known[k].st \in {"rpushed", "lpushed"}

\* C21 as stated: after RPush(k, x1, ..., xn) on an absent key LRange(k, 0, -1)
\* returns [x1, ..., xn], after LPush [xn, ..., x1], whatever the values are.
C21_AsStated ==
    \A k \in Keys :
       (Called("LRange", k) /\ PushedOnly(k) /\ reply.range = <<0, 0 - 1>>)
          => reply.err = NoErr /\ Strs(reply.list) = Expected(reply.known[k])

\* C21: after RPush(k, x1, ..., xn) on an absent key LRange(k, 0, -1) returns
\* the client's encodings of x1, ..., xn in that order (the values themselves
\* when they are strings), after LPush in the reverse order; LRange(k, a, b)
\* returns the elements at the positions a to b, both included, -1 being the
\* last position.
C21_ListOrderAndRange ==
    \A k \in Keys :
       LET all == Encoded(Expected(reply.known[k]))
           a == reply.range[1]
           b == reply.range[2]
       IN  (Called("LRange", k) /\ PushedOnly(k))
              => /\ reply.err = NoErr
                 /\ (a = 0 /\ b = 0 - 1) => reply.list = all
                 /\ (0 <= a /\ a <= b /\ b < Len(all))
                       => /\ Len(reply.list) = b - a + 1
                          /\ \A i \in a..b : reply.list[i - a + 1] = all[i + 1]
                 /\ (0 <= a /\ a < Len(all) /\ b = 0 - 1)
                       => /\ Len(reply.list) = Len(all) - a
                          /\ reply.list[Len(reply.list)] = all[Len(all)]

\* LPush of two different strings onto an absent key; LRange(k, 0, -1) returned
\* the second one first.
C21_Witness ==
    \E k \in Keys :
       /\ Called("LRange", k)
       /\ reply.range = <<0, 0 - 1>>
       /\ reply.known[k].st = "lpushed"
       /\ \A i \in 1..Len(reply.known[k].v.v) : reply.known[k].v.v[i].t = "string"
       /\ Len(reply.list) = Cardinality({"a", "b"})
       /\ reply.list[1] # reply.list[Len(reply.list)]
       /\ Str(reply.list[1]) = reply.known[k].v.v[Len(reply.list)]

(***************************************************************************)
(*           PART 5: THE DOCUMENT FACADE (dynamodb.Client)                 *)
(***************************************************************************)

\* The hash keys ("id") of the items the tests put.
ItemIds == {"user-1", "user-2", "user-3"}

\* The attributes besides the key, and the values they take; "" is no attribute.
Attrs == {"name", "email"}

AttrVals == [name : {"John Doe", "Jane Doe"}, email : {"", "jane@example.com"}]

NoItem == [name |-> "", email |-> ""]

\* The store answers a Scan with at most PageSize items per response (in the
\* service: one megabyte of data per response).
PageSize == 2

\* "name" is a reserved word of the expression language: an expression names
\* it through an alias only.
ReservedWords == {"name"}

\* An update expression "SET <path> = :v", its path an attribute or an alias,
\* with the expression attribute names the caller has for it.
SetExpr(path) == [path |-> path]

Aliases == {"#n", "#e"}

Paths == Attrs \cup Aliases

\* map[string]string{"#n": "name"}: the aliases the caller's expression needs.
NamesFor(path) ==
    IF path = "#n" THEN {<<"#n", "name">>}
    ELSE IF path = "#e" THEN {<<"#e", "email">>}
    ELSE {}

NoNames == {}

\* The UpdateItemInput the facade builds: TableName, Key, UpdateExpression and
\* ExpressionAttributeValues; it has no parameter and no field for the aliases.
UpdateItemInput(id, path, v, names) ==
    [key |-> id, expr |-> SetExpr(path), values |-> v, names |-> NoNames]

\* The attribute a path of the expression stands for in a request, "" if the
\* request does not define it.
Resolve(in) ==
    IF in.expr.path \in Attrs
    THEN IF in.expr.path \in ReservedWords THEN "" ELSE in.expr.path
    ELSE IF \E nm \in in.names : nm[1] = in.expr.path
    THEN (CHOOSE nm \in in.names : nm[1] = in.expr.path)[2]
    ELSE ""

\* The store's UpdateItem.
UpdateItemErr(exists, in) ==
    IF ~exists THEN "ResourceNotFoundException"
    ELSE IF Resolve(in) = "" THEN "ValidationException"
    ELSE NoErr

\* What a test knows of the item of a key from its calls so far: never put
\* since the table was made, the item last put, deleted, or changed in place.
NeverPut == [st |-> "never", item |-> NoItem]

Learns(op, id, item, err) ==
    IF err # NoErr THEN answer.known
    ELSE CASE op = "PutItem" -> [answer.known EXCEPT ![id] = [st |-> "put", item |-> item]]
           [] op = "DeleteItem" -> [answer.known EXCEPT ![id] = [st |-> "deleted", item |-> NoItem]]
           [] op = "UpdateItem" -> [answer.known EXCEPT ![id] = [st |-> "changed", item |-> NoItem]]
           [] op \in {"CreateTable", "DeleteTable"} -> [i \in ItemIds |-> NeverPut]
           [] OTHER -> answer.known

\* A completed call of the document facade; prev is the call before it, existed
\* and had whether the table existed before this call and before that one.
Answered(op, id, in, item, items, err) ==
    [op |-> op, id |-> id, in |-> in, item |-> item, items |-> items, err |-> err,
     before |-> store.items, known |-> Learns(op, id, item, err),
     prev |-> answer.op, existed |-> store.exists, had |-> answer.existed]

NoInput == UpdateItemInput("", "name", "", NoNames)

DocReturns(a, exists, items) ==
    /\ store' = [exists |-> exists, items |-> items]
    /\ answer' = a
    /\ UNCHANGED <<harnessVars, txVars, counterVars, cacheVars>>

\* CreateTable(ctx, table): an existing table is an error.
CreateDocTable ==
    DocReturns(Answered("CreateTable", "", NoInput, NoItem, {},
                        IF store.exists THEN "ResourceInUseException" ELSE NoErr),
               TRUE, store.items)

TableErr == IF store.exists THEN NoErr ELSE "ResourceNotFoundException"

\* (mutant: the items of a deleted table are there when it is created again)
DeleteTableKeepsItems ==
    DocReturns(Answered("DeleteTable", "", NoInput, NoItem, {}, TableErr),
               FALSE, store.items)

\* DeleteTable(ctx, table): the table goes with its items; no table is an error.
DeleteDocTable ==
    DocReturns(Answered("DeleteTable", "", NoInput, NoItem, {}, TableErr),
               FALSE, [id \in ItemIds |-> NoItem])

\* (mutant: PutItem keeps the attributes of the old item that the new one lacks)
Merged(old, item) == [a \in Attrs |-> IF item[a] = "" THEN old[a] ELSE item[a]]

\* The store's PutItem: the new item takes the place of the old one whole.
Replaced(old, item) == item

\* PutItem(ctx, table, item): the item replaces the one with its key.
PutItem(id, item) ==
    DocReturns(Answered("PutItem", id, NoInput, item, {}, TableErr),
               store.exists,
               IF store.exists
               THEN [store.items EXCEPT ![id] = Replaced(@, item)]
               ELSE store.items)

\* (mutant: deleting what is not there is an error)
DeleteItemStrict(exists, old) ==
    IF ~exists THEN "ResourceNotFoundException"
    ELSE IF old = NoItem THEN "ConditionalCheckFailedException"
    ELSE NoErr

\* The store's DeleteItem has no condition here: no item is no error.
DeleteItemErr(exists, old) ==
    IF ~exists THEN "ResourceNotFoundException" ELSE NoErr

\* DeleteItem(ctx, table, key)
DeleteItem(id) ==
    LET err == DeleteItemErr(store.exists, store.items[id]) IN
    DocReturns(Answered("DeleteItem", id, NoInput, NoItem, {}, err),
               store.exists,
               IF err = NoErr THEN [store.items EXCEPT ![id] = NoItem]
               ELSE store.items)

\* GetItem(ctx, table, key): result.Item, the empty map when there is no item.
GetItem(id) ==
    DocReturns(Answered("GetItem", id, NoInput,
                        IF store.exists THEN store.items[id] ELSE NoItem, {},
                        TableErr),
               store.exists, store.items)

\* UpdateItem(ctx, table, key, updateExpression, expressionAttributeValues); the
\* caller's expression is "SET <path> = :v" and names are the aliases it needs.
UpdateItem(id, path, v) ==
    LET in == UpdateItemInput(id, path, v, NamesFor(path))
        err == UpdateItemErr(store.exists, in)
    IN  DocReturns(Answered("UpdateItem", id,
                            [in EXCEPT !.expr = SetExpr(path)], NoItem, {}, err),
                   store.exists,
                   IF err = NoErr
                   THEN [store.items EXCEPT ![id][Resolve(in)] = v]
                   ELSE store.items)

Stored == {id \in ItemIds : store.items[id] # NoItem}

\* The first response page of a Scan: any PageSize of the items, all of them
\* if they are no more.
Pages ==
    {pg \in SUBSET Stored :
        Cardinality(pg) = IF Cardinality(Stored) > PageSize THEN PageSize
                          ELSE Cardinality(Stored)}

\* Scan(ctx, table): one Scan request, result.Items of its response.
Scan ==
    \E pg \in Pages :
       DocReturns(Answered("Scan", "", NoInput, NoItem,
                           IF store.exists
                           THEN {<<id, store.items[id]>> : id \in pg} ELSE {},
                           TableErr),
                  store.exists, store.items)

InitDoc ==
    /\ store = [exists |-> FALSE, items |-> [id \in ItemIds |-> NoItem]]
    /\ answer = [op |-> "NewClient", id |-> "", in |-> NoInput, item |-> NoItem,
                 items |-> {}, err |-> NoErr,
                 before |-> [id \in ItemIds |-> NoItem],
                 known |-> [id \in ItemIds |-> NeverPut],
                 prev |-> "NewClient", existed |-> FALSE, had |-> FALSE]

NextDoc ==
    \/ CreateDocTable
    \/ \E id \in ItemIds, item \in AttrVals : PutItem(id, item)
    \/ \E id \in ItemIds : GetItem(id)
    \/ \E id \in ItemIds, path \in Paths, v \in {"Jane Doe", "jane@example.com"} :
          UpdateItem(id, path, v)
    \/ Scan

\* The keys TestDynamoDBPutAndGetItem and TestDynamoDBDeleteItem put; GetItem
\* and DeleteItem also take a key that is never put.
PutIds == {"user-1", "user-2"}

NextItems ==
    \/ CreateDocTable
    \/ DeleteDocTable
    \/ \E id \in PutIds, item \in AttrVals : PutItem(id, item)
    \/ \E id \in ItemIds : GetItem(id)
    \/ \E id \in ItemIds : DeleteItem(id)

\* ---- the suites on one shared instance ----------------------------------------

\* TestRedisIncrement increments twice.
SuiteIncrements == 2

\* The tests of the two TestMain suites, call by call, in any order and any
\* number of times, each call on whatever the calls before it left: the redis
\* tests on one key, the dynamodb tests on one table and one item key.
NextSuite ==
    \/ \E k \in ListKeys : Delete({k})
    \/ \E k \in ListKeys : Set(k, Str(<<"v">>), 0)
    \/ \E k \in ListKeys : Get(k)
    \/ \E k \in ListKeys : Exists({k})
    \/ \E k \in ListKeys :
          reply.known[k].st # "changed" /\ reply.known[k].incs < SuiteIncrements
             /\ Incr(k)
    \/ \E k \in ListKeys : reply.known[k].st # "changed" /\ Decr(k)
    \/ \E k \in ListKeys, x \in Items : RPush(k, <<x>>)
    \/ \E k \in ListKeys : LRange(k, 0, 0 - 1)
    \/ DeleteDocTable
    \/ CreateDocTable
    \/ \E item \in AttrVals : item.email = "" /\ PutItem("user-1", item)
    \/ GetItem("user-1")
    \/ DeleteItem("user-1")

\* ---- claims about the document facade ----------------------------------------

\* The attribute the caller's alias stands for.
Aliased(path) == (CHOOSE nm \in NamesFor(path) : TRUE)[2]

\* C13: an UpdateItem whose expression names its attribute through an alias
\* ("SET #n = :name", #n standing for name) succeeds, and the item a following
\* GetItem returns has the new value.
C13_UpdateItemForwardsAliases ==
    (answer.op = "UpdateItem" /\ answer.in.expr.path \in Aliases /\ store.exists)
       => /\ answer.err = NoErr
          /\ store.items[answer.id][Aliased(answer.in.expr.path)] = answer.in.values

\* C14: Scan returns all the items of the table, each once.
C14_ScanReturnsAll ==
    (answer.op = "Scan" /\ store.exists)
       => /\ answer.err = NoErr
          /\ answer.items = {<<id, store.items[id]>> : id \in Stored}

\* C22: GetItem for the key of an item put returns the item last put with that
\* key, equal on all attributes; a PutItem on the key of an existing item
\* replaces it whole and adds no item: every other key keeps what it had.
C22_PutGetRoundTrip ==
    /\ (answer.op = "GetItem" /\ answer.known[answer.id].st = "put")
          => /\ answer.err = NoErr
             /\ \A a \in Attrs : answer.item[a] = answer.known[answer.id].item[a]
    /\ (answer.op = "PutItem" /\ answer.err = NoErr)
          => /\ store.items[answer.id] = answer.item
             /\ \A id \in ItemIds \ {answer.id} : store.items[id] = answer.before[id]
             /\ answer.before[answer.id] # NoItem
                   => Cardinality(Stored)
                        = Cardinality({id \in ItemIds : answer.before[id] # NoItem})

\* An item with an email is replaced by one without: GetItem returns the
\* second, which has no email.
C22_Witness ==
    /\ answer.op = "GetItem"
    /\ answer.err = NoErr
    /\ answer.known[answer.id].st = "put"
    /\ answer.item.email = ""
    /\ \E id \in ItemIds \ {answer.id} : store.items[id].email # ""

\* The table exists and, by the test's calls, holds no item with key id.
NoItemAt(id) == store.exists /\ answer.known[id].st \in {"never", "deleted"}

\* C23: in an existing table GetItem for a key with no item, never put or put
\* and deleted, returns the empty result and no error; DeleteItem for a key
\* with no item returns no error and leaves the table as it was.
C23_AbsentItem ==
    /\ (answer.op = "GetItem" /\ NoItemAt(answer.id))
          => answer.err = NoErr /\ answer.item = NoItem
    /\ (answer.op = "DeleteItem" /\ store.exists /\ answer.before[answer.id] = NoItem)
          => answer.err = NoErr /\ store.items = answer.before

\* DeleteItem on a key with no item, in a table that has an item.
C23_Witness ==
    /\ answer.op = "DeleteItem"
    /\ store.exists
    /\ answer.before[answer.id] = NoItem
    /\ answer.err = NoErr
    /\ Stored # {}

\* GetItem on a key whose item was put and then deleted.
C23_WitnessDeleted ==
    /\ answer.op = "GetItem"
    /\ answer.known[answer.id].st = "deleted"
    /\ store.exists

\* ---- a claim about both suites ------------------------------------------------

\* The assertions of the redis suite's tests, each about a key the test deleted
\* (or nobody ever wrote) and has written alone since.
RedisAssertions(k) ==
    LET g == reply.known[k] IN
    /\ (Called("Get", k) /\ Kept(k) /\ g.v.t = "string")
          => reply.err = NoErr /\ reply.val = g.v.v
    /\ (Called("Exists", k) /\ Kept(k)) => reply.n = 1
    /\ (Called("Exists", k) /\ g.st = "deleted") => reply.n = 0
    /\ (Called("Increment", k) /\ g.st = "counted" /\ g.decs = 0)
          => reply.err = NoErr /\ reply.n = g.incs
    /\ (Called("Decrement", k) /\ g.st = "counted" /\ g.decs = 1)
          => reply.err = NoErr /\ reply.n = g.incs - 1
    /\ (Called("LRange", k) /\ g.st = "rpushed")
          => reply.err = NoErr /\ reply.list = Encoded(g.v.v)

\* The assertions of the dynamodb suite's tests: the CreateTable that follows
\* the DeleteTable succeeds, and the table has the items put since and no other.
DynamoAssertions ==
    /\ (answer.op = "CreateTable" /\ answer.prev = "DeleteTable")
          => answer.err = NoErr /\ store.exists /\ Stored = {}
    /\ (answer.op = "GetItem" /\ answer.known[answer.id].st = "put")
          => answer.err = NoErr /\ answer.item = answer.known[answer.id].item
    /\ (answer.op = "GetItem" /\ store.exists
            /\ answer.known[answer.id].st = "deleted")
          => answer.err = NoErr /\ answer.item = NoItem

HarnessIdle ==
    /\ proc = [p \in Procs |-> InitProc("setupPostgres")]
    /\ containers = <<>>
    /\ boot = NotStarted

TxIdle == InitTx

CounterIdle ==
    /\ kv = [present |-> FALSE, val |-> 0, init |-> 0]
    /\ clients = [c \in Callers |->
                    [st |-> "idle", op |-> "none", cmd |-> "none", ret |-> 0, n |-> 0]]
    /\ history = <<>>

CacheIdle == InitCache

DocIdle == InitDoc

InitH == InitHarness /\ TxIdle /\ CounterIdle /\ CacheIdle /\ DocIdle

InitT == HarnessIdle /\ InitTx /\ CounterIdle /\ CacheIdle /\ DocIdle

InitC == HarnessIdle /\ TxIdle /\ InitCounter /\ CacheIdle /\ DocIdle

\* Before the relational instance is started.
InitR == HarnessIdle /\ TxIdle /\ CounterIdle /\ CacheIdle /\ DocIdle

\* The cache and the relational store of a fresh pair of instances.
InitK == HarnessIdle /\ TxIdle /\ CounterIdle /\ InitCache /\ DocIdle

InitD == HarnessIdle /\ TxIdle /\ CounterIdle /\ CacheIdle /\ InitDoc

\* The two shared instances when TestMain has started them.
InitS == HarnessIdle /\ TxIdle /\ CounterIdle /\ InitCache /\ InitDoc

\* TestMultiContainerIntegration's stores: the relational DDL and the cache's
\* Set / Delete, each repeated at will.
NextIdem ==
    \/ CreateTable
    \/ DropTable
    \/ \E u \in Users : InsertUser(u)
    \/ \E k \in Keys : Set(k, Str(<<"v">>), 0)
    \/ \E ks \in KeySets : Delete(ks)

SpecHarness == InitH /\ [][NextHarness]_vars

SpecTx == InitT /\ [][NextTx]_vars

SpecUsers == InitT /\ [][NextUsers]_vars

SpecCounter == InitC /\ [][NextCounter]_vars

SpecCache == InitK /\ [][NextCache]_vars

SpecExpiry == InitK /\ [][NextExpiry]_vars

SpecSeq == InitK /\ [][NextCount]_vars

SpecIdem == InitK /\ [][NextIdem]_vars

\* The wait loop of Run keeps polling until it returns.
SpecReady == InitR /\ [][NextReady]_vars /\ WF_vars(WaitReturns)

SpecWhere == InitT /\ [][NextWhere]_vars

SpecList == InitK /\ [][NextList]_vars

SpecItems == InitD /\ [][NextItems]_vars

SpecSuite == InitS /\ [][NextSuite]_vars

SpecDoc == InitD /\ [][NextDoc]_vars

=============================================================================
